---- MODULE Spec2Model ----
(***************************************************************************)
(* DebateCraft turn pipeline: the Debate page (handleSendMessage, the      *)
(* sentence segmenter, playTTS and the audio queue) and the debate-start   *)
(* and debate-continue edge functions.                                     *)
(*                                                                         *)
(* Six specifications share the module:                                    *)
(*   SpecSeg    the sentence segmenter of handleSendMessage, over every    *)
(*              answer text up to MaxLen characters and every way the      *)
(*              text arrives in fullText updates;                          *)
(*   SpecAudio  playTTS / queueAudio / playNextInQueue / stopAudio and the *)
(*              events of the one audio element;                           *)
(*   SpecTurn   a session: debate-start, then debate-continue turns driven *)
(*              by the Debate page, with the vector store;                 *)
(*   SpecPage   SpecTurn with the rest of the Debate page: handleEndDebate *)
(*              and transcribeAudio;                                       *)
(*   SpecGen    one debate-start or debate-continue request in detail: the *)
(*              prompt, the generator's event stream and the read loop;    *)
(*   SpecScope  the namespaces of the vector index that the requests of    *)
(*              the two edge functions query and write.                    *)
(* Text is a sequence of one-character strings.                            *)
(***************************************************************************)
EXTENDS Integers, Sequences, FiniteSets, TLC

\* ------------------------------------------------------------------ bounds
MaxLen == 4        \* longest answer text explored by SpecSeg
MaxClips == 3      \* sentences handed to playTTS in SpecAudio
MaxTurns == 1      \* debate-continue turns after debate-start in SpecTurn
MaxDeltas == 2     \* upstream events of one generation in SpecTurn

\* ------------------------------------------------------------------- state
VARIABLES
  \* handleSendMessage, locals of one turn
  answer,            \* the text the generator produces for this turn
  fullText,          \* let fullText
  sentenceBuffer,    \* let sentenceBuffer
  ttsCalls,          \* the texts passed to playTTS, in call order
  shown,             \* per playTTS call: the text submitted for display before the call
  newTexts,          \* const newText of each incremental update, in order
  streamEnded        \* the read loop has ended and the final flush has run

segVars == <<answer, fullText, sentenceBuffer, ttsCalls, shown, newTexts, streamEnded>>

VARIABLES
  \* playTTS and the audio queue of the Debate page
  tts,               \* per sentence (numbered in emission order): its playTTS call
  audioQueueRef,     \* audioQueueRef.current
  isPlayingQueueRef, \* isPlayingQueueRef.current
  isPlayingAudio,    \* useState isPlayingAudio
  audioRef,          \* audioRef.current: the clip loaded (src) and the element's state
  playRejections,    \* clips whose play() promise is rejected, catch block not yet run
  \* history of the audio queue, read by the properties only
  playLog,           \* clips in the order play() was called on them
  played,            \* clips that played to their end
  failedClips,       \* clips whose own playback failed (error event, refused play())
  staleTTS,          \* playTTS calls that were in flight when stopAudio ran
  stops,             \* number of stopAudio calls
  lastOp             \* the step taken last

audioVars == <<tts, audioQueueRef, isPlayingQueueRef, isPlayingAudio, audioRef,
               playRejections, playLog, played, failedClips, staleTTS, stops, lastOp>>

VARIABLES
  \* the Setup and Debate pages (client)
  cPc,               \* where the client is: "setup", "starting", "idle", "waiting", "reading"
  conversation,      \* useState conversation
  sourceGroups,      \* useState sourceGroups (the turnIndex of each group)
  turnIndex,         \* useState turnIndex
  isLoading,         \* useState isLoading
  userInput,         \* useState userInput
  convAtSend,        \* `conversation` as captured by the running handleSendMessage
  metadata,          \* let metadata (0: null, else the done event's turn_index)
  notice,            \* the last toast shown
  outcome            \* how the last turn ended at the client: "none", "completed", "failed", "dangling"

clientVars == <<cPc, conversation, sourceGroups, turnIndex, isLoading, userInput,
                convAtSend, metadata, notice, outcome>>

VARIABLES
  \* the edge function handling the request in flight (server)
  sPc,               \* position of the handler
  req,               \* the request body
  queryOk,           \* outcome of the corpus-scope and the session-scope query
  llmRequested,      \* the generation request was issued
  fullAnswer,        \* let fullAnswer / const answer
  deltas,            \* upstream events read from the generator so far
  sResp,             \* the response: "none", "ok", "error"
  wire,              \* response body events enqueued and not yet read by the client
  streamState        \* the response stream: "none", "open", "closed", "errored"

serverVars == <<sPc, req, queryOk, llmRequested, fullAnswer, deltas, sResp, wire,
                streamState>>

VARIABLES
  \* the session namespace of the vector store
  store,             \* turn index -> the vector stored under {session_id}::turn::{index}
  upsertLog,         \* the upserts issued, in order
  embedLog,          \* the texts the current request had embedded, in call order
  \* history, read by the properties only
  turnsDone,         \* <<user index, assistant index>> of each turn the client saw completed
  genDone,           \* this turn's answer is final (terminal event enqueued, or answer extracted)
  frameSkipped,      \* the client could not parse an event of this turn
  turnsSent          \* debate-continue requests sent

storeVars == <<store, upsertLog, embedLog, turnsDone, genDone, frameSkipped, turnsSent>>

turnVars == <<clientVars, serverVars, storeVars>>

VARIABLES
  \* the Debate page outside handleSendMessage
  stt,               \* transcribeAudio: "idle", "inflight" (the elevenlabs-stt fetch), "failed"
  results            \* the state handed to /results by handleEndDebate, and when

pageVars == <<stt, results>>

VARIABLES
  \* one debate-start or debate-continue request, from retrieval to the last event
  gPc,               \* "prompt", "generate", "read", "done"
  gKind,             \* "start" or "continue"
  corpusMatches,     \* const corpusMatches / matches: match ids in retrieval order
  conversation_history, \* the request's conversation_history
  systemPrompt,      \* const systemPrompt: what it advertises, labels and quotes
  upstream,          \* the generator's event stream, the part not yet read
  sentTexts          \* the text of each well-formed event the generator sent, in order

genVars == <<gPc, gKind, corpusMatches, conversation_history, systemPrompt,
             upstream, sentTexts>>

VARIABLES
  \* the vector index and the request an edge function is handling
  nsPc,              \* "idle", "accepted", "query", "upsert" ("parked": not under study)
  body,              \* the request body: function, session_id, turn_index
  currentSessionId,  \* const currentSessionId (debate-start) / session_id (debate-continue)
  queries,           \* the /query calls of the request: scope and namespace
  index,             \* namespace -> the ids of the vectors stored in it
  uuids,             \* crypto.randomUUID() calls so far
  requests           \* requests accepted so far

scopeVars == <<nsPc, body, currentSessionId, queries, index, uuids, requests>>

vars == <<segVars, audioVars, turnVars, pageVars, genVars, scopeVars>>

\* ------------------------------------------------------------ text helpers
Min(S) == CHOOSE x \in S : \A y \in S : x <= y
Max(S) == CHOOSE x \in S : \A y \in S : x >= y

\* the characters the explored texts are made of
Alphabet == {"a", ".", " ", "\n"}
\* \s of the regular expression and the characters String.prototype.trim removes
WhiteSpace == {" ", "\n"}
\* the characters the regular expression's . does not match
LineTerminator == {"\n"}
\* [.!?]
Terminal == {".", "!", "?"}

\* s.slice(from)
slice(s, from) == SubSeq(s, from + 1, Len(s))

\* s.trim()
trim(s) ==
  LET keep == {i \in 1..Len(s) : s[i] \notin WhiteSpace}
  IN IF keep = {} THEN <<>> ELSE SubSeq(s, Min(keep), Max(keep))

\* Length of sentenceMatch[0] for sentenceBuffer.match(/^(.*?[.!?](?:\s|$))/),
\* 0 when there is no match.  The lazy .*? stops at the first terminal
\* character that is followed by whitespace (which the match then includes)
\* or by the end of the buffer; . does not cross a line terminator.
SentenceMatch(buf) ==
  LET ends == {i \in 1..Len(buf) :
                 /\ buf[i] \in Terminal
                 /\ \A j \in 1..(i - 1) : buf[j] \notin LineTerminator
                 /\ (i = Len(buf) \/ buf[i + 1] \in WhiteSpace)}
  IN IF ends = {} THEN 0
     ELSE IF Min(ends) < Len(buf) THEN Min(ends) + 1 ELSE Min(ends)

\* The body of the `else if (parsed.fullText)` branch, as a buggy variant that
\* cuts the buffer by the length of the trimmed sentence.
SegmentUpdateCutTrimmed(ft, sb, calls, parsedFullText) ==
  LET previousLength == Len(ft)
      newText == slice(parsedFullText, previousLength)
      buf == sb \o newText
      m == SentenceMatch(buf)
      completeSentence == trim(SubSeq(buf, 1, m))
  IN [fullText |-> parsedFullText,
      newText |-> newText,
      sentenceBuffer |-> IF m > 0 THEN slice(buf, Len(completeSentence)) ELSE buf,
      ttsCalls |-> IF m > 0 /\ completeSentence # <<>>
                     THEN Append(calls, completeSentence) ELSE calls]

\* The body of the `else if (parsed.fullText)` branch: the suffix by length
\* difference is appended to the buffer, then at most ONE leading sentence is
\* taken from the buffer (an `if`, not a loop) and passed, trimmed, to playTTS.
SegmentUpdate(ft, sb, calls, parsedFullText) ==
  LET previousLength == Len(ft)
      newText == slice(parsedFullText, previousLength)
      buf == sb \o newText
      m == SentenceMatch(buf)
      completeSentence == trim(SubSeq(buf, 1, m))
  IN [fullText |-> parsedFullText,
      newText |-> newText,
      sentenceBuffer |-> IF m > 0 THEN slice(buf, m) ELSE buf,
      ttsCalls |-> IF m > 0 /\ completeSentence # <<>>
                     THEN Append(calls, completeSentence) ELSE calls]

\* `if (sentenceBuffer.trim()) playTTS(sentenceBuffer.trim())` after the loop
FinalFlush(sb, calls) ==
  IF trim(sb) # <<>> THEN Append(calls, trim(sb)) ELSE calls

\* buggy variant of the order of the incremental branch: playTTS is called
\* before setConversation, so the text on display is still the previous one
TextShownAtTTSLate(previousFullText, parsedFullText) == previousFullText

\* The text submitted for display when a sentence of an incremental update is
\* handed to playTTS: setConversation with the update's fullText is called
\* before the sentence is matched.
TextShownAtTTS(previousFullText, parsedFullText) == parsedFullText

\* `shown` after calls became newCalls while `text` was the text on display
Shown(newCalls, text) ==
  IF Len(newCalls) > Len(ttsCalls) THEN Append(shown, text) ELSE shown

\* ------------------------------------------------- SpecSeg: the segmenter
RECURSIVE Texts(_)
Texts(n) ==
  IF n = 0 THEN {<<>>}
  ELSE Texts(n - 1) \cup {Append(t, c) : t \in {u \in Texts(n - 1) : Len(u) = n - 1},
                                          c \in Alphabet}

\* no request in flight
ServerIdle ==
  /\ sPc = "idle"
  /\ req = [kind |-> "none", turn_index |-> 0, history |-> <<>>]
  /\ queryOk = [corpus |-> TRUE, session |-> TRUE]
  /\ llmRequested = FALSE
  /\ fullAnswer = <<>>
  /\ deltas = 0
  /\ sResp = "none"
  /\ wire = <<>>
  /\ streamState = "none"

\* the Setup page before a debate is started, an empty session namespace
TurnInit ==
  /\ cPc = "setup"
  /\ conversation = <<>>
  /\ sourceGroups = <<>>
  /\ turnIndex = 0
  /\ isLoading = FALSE
  /\ userInput = <<>>
  /\ convAtSend = <<>>
  /\ metadata = 0
  /\ notice = "none"
  /\ outcome = "none"
  /\ ServerIdle
  /\ store = [k \in {} |-> 0]
  /\ upsertLog = <<>>
  /\ embedLog = <<>>
  /\ turnsDone = <<>>
  /\ genDone = FALSE
  /\ frameSkipped = FALSE
  /\ turnsSent = 0

\* no recording transcribed, the debate not ended
PageInit ==
  /\ stt = "idle"
  /\ results = [during |-> "none", transcript |-> <<>>, source_groups |-> <<>>]

\* no request under study
GenParked ==
  /\ gPc = "done"
  /\ gKind = "none"
  /\ corpusMatches = <<>>
  /\ conversation_history = <<>>
  /\ systemPrompt = [advertised |-> 0, corpusContext |-> <<>>, conversationSummary |-> <<>>]
  /\ upstream = <<>>
  /\ sentTexts = <<>>

\* no request under study, the index not looked at
ScopeParked ==
  /\ nsPc = "parked"
  /\ body = [fn |-> "none", session_id |-> "", turn_index |-> 0]
  /\ currentSessionId = ""
  /\ queries = {}
  /\ index = [ns \in {} |-> {}]
  /\ uuids = 0
  /\ requests = 0

\* the state of the Debate page's audio refs and state after the first render
AudioInit ==
  /\ tts = [i \in 1..MaxClips |-> "none"]
  /\ audioQueueRef = <<>>
  /\ isPlayingQueueRef = FALSE
  /\ isPlayingAudio = FALSE
  /\ audioRef = [src |-> 0, st |-> "null"]
  /\ playRejections = {}
  /\ playLog = <<>>
  /\ played = {}
  /\ failedClips = {}
  /\ staleTTS = {}
  /\ stops = 0
  /\ lastOp = "init"

InitSeg ==
  /\ answer \in Texts(MaxLen)
  /\ fullText = <<>>
  /\ sentenceBuffer = <<>>
  /\ ttsCalls = <<>>
  /\ shown = <<>>
  /\ newTexts = <<>>
  /\ streamEnded = FALSE
  /\ AudioInit
  /\ TurnInit
  /\ PageInit
  /\ GenParked
  /\ ScopeParked

\* One incremental event reaches the client.  debate-continue sends the
\* accumulated answer with every non-empty delta, so each fullText is a longer
\* prefix of the answer; events the client skipped show as a longer step.
SegUpdate ==
  /\ ~streamEnded
  /\ \E k \in (Len(fullText) + 1)..Len(answer) :
       LET r == SegmentUpdate(fullText, sentenceBuffer, ttsCalls, SubSeq(answer, 1, k))
       IN /\ fullText' = r.fullText
          /\ sentenceBuffer' = r.sentenceBuffer
          /\ ttsCalls' = r.ttsCalls
          /\ shown' = Shown(r.ttsCalls, TextShownAtTTS(fullText, SubSeq(answer, 1, k)))
          /\ newTexts' = Append(newTexts, r.newText)
  /\ UNCHANGED <<answer, streamEnded, audioVars, turnVars, pageVars, genVars, scopeVars>>

\* reader.read() reports done: the loop ends and the rest of the buffer is flushed
SegEnd ==
  /\ ~streamEnded
  /\ ttsCalls' = FinalFlush(sentenceBuffer, ttsCalls)
  /\ shown' = Shown(FinalFlush(sentenceBuffer, ttsCalls), fullText)
  /\ streamEnded' = TRUE
  /\ UNCHANGED <<answer, fullText, sentenceBuffer, newTexts, audioVars, turnVars,
                 pageVars, genVars, scopeVars>>

NextSeg == SegUpdate \/ SegEnd

SpecSeg == InitSeg /\ [][NextSeg]_vars

\* ------------------------------------------- SpecAudio: the audio queue
(***************************************************************************)
(* The audio element is the environment.  audioRef.st is                   *)
(*   "null"     audioRef.current is null (src = 0)                         *)
(*   "loading"  play() was called and its promise is pending               *)
(*   "playing"  the promise resolved, the clip plays                       *)
(*   "ended"    the ended event fired                                      *)
(*   "error"    the error event fired                                      *)
(*   "blocked"  play() was refused (NotAllowedError), no error event       *)
(*   "paused"   pause() halted the clip                                    *)
(* pause() on an element whose play() promise is pending rejects that      *)
(* promise (AbortError), and a load failure both fires the error event and *)
(* rejects the pending promise (NotSupportedError): the rejected promise   *)
(* runs the catch block of the playNextInQueue call that made it, in a     *)
(* later step (PlayRejected).                                              *)
(***************************************************************************)
MaxStops == 2      \* stopAudio calls explored

Range(f) == {f[i] : i \in DOMAIN f}

\* playNextInQueue called with queue q, audio element a and rejected promises rej
playNextInQueue(q, a, rej) ==
  IF Len(q) = 0
  THEN /\ isPlayingQueueRef' = FALSE
       /\ isPlayingAudio' = FALSE
       /\ audioQueueRef' = q
       /\ audioRef' = a
       /\ playRejections' = rej
       /\ playLog' = playLog
  ELSE /\ isPlayingQueueRef' = TRUE
       /\ isPlayingAudio' = TRUE
       /\ audioQueueRef' = Tail(q)              \* shift()
       \* pause() of the element, then src = audioUrl (or new Audio), then play()
       /\ playRejections' = IF a.st = "loading" THEN rej \cup {a.src} ELSE rej
       /\ audioRef' = [src |-> Head(q), st |-> "loading"]
       /\ playLog' = Append(playLog, Head(q))

\* queueAudio(audioUrl)
queueAudio(audioUrl) ==
  IF ~isPlayingQueueRef
  THEN playNextInQueue(Append(audioQueueRef, audioUrl), audioRef, playRejections)
  ELSE /\ audioQueueRef' = Append(audioQueueRef, audioUrl)
       /\ UNCHANGED <<isPlayingQueueRef, isPlayingAudio, audioRef, playRejections, playLog>>

\* playTTS(text) up to the await of the fetch; sentences are numbered in the
\* order the segmenter emits them
PlayTTS ==
  /\ \E i \in 1..MaxClips :
       /\ tts[i] = "none"
       /\ \A j \in 1..(i - 1) : tts[j] # "none"
       /\ tts' = [tts EXCEPT ![i] = "inflight"]
  /\ lastOp' = "playTTS"
  /\ UNCHANGED <<audioQueueRef, isPlayingQueueRef, isPlayingAudio, audioRef,
                 playRejections, playLog, played, failedClips, staleTTS, stops>>
  /\ UNCHANGED <<segVars, turnVars, pageVars, genVars, scopeVars>>

\* playTTS: the response is not ok, or the fetch throws: logged, nothing queued
TTSFailed ==
  /\ \E i \in 1..MaxClips :
       /\ tts[i] = "inflight"
       /\ tts' = [tts EXCEPT ![i] = "failed"]
  /\ lastOp' = "ttsFailed"
  /\ UNCHANGED <<audioQueueRef, isPlayingQueueRef, isPlayingAudio, audioRef,
                 playRejections, playLog, played, failedClips, staleTTS, stops>>
  /\ UNCHANGED <<segVars, turnVars, pageVars, genVars, scopeVars>>

\* playTTS: the response is ok: the blob URL is handed to queueAudio
TTSDone ==
  /\ \E i \in 1..MaxClips :
       /\ tts[i] = "inflight"
       /\ tts' = [tts EXCEPT ![i] = "done"]
       /\ queueAudio(i)
  /\ lastOp' = "queueAudio"
  /\ UNCHANGED <<played, failedClips, staleTTS, stops>>
  /\ UNCHANGED <<segVars, turnVars, pageVars, genVars, scopeVars>>

\* the play() promise resolves: playback has started
PlayResolved ==
  /\ audioRef.st = "loading"
  /\ audioRef' = [audioRef EXCEPT !.st = "playing"]
  /\ lastOp' = "playResolved"
  /\ UNCHANGED <<tts, audioQueueRef, isPlayingQueueRef, isPlayingAudio,
                 playRejections, playLog, played, failedClips, staleTTS, stops>>
  /\ UNCHANGED <<segVars, turnVars, pageVars, genVars, scopeVars>>

\* the ended event: onended calls playNextInQueue
ClipEnded ==
  /\ audioRef.st = "playing"
  /\ played' = played \cup {audioRef.src}
  /\ playNextInQueue(audioQueueRef, [audioRef EXCEPT !.st = "ended"], playRejections)
  /\ lastOp' = "ended"
  /\ UNCHANGED <<tts, failedClips, staleTTS, stops>>
  /\ UNCHANGED <<segVars, turnVars, pageVars, genVars, scopeVars>>

\* the error event: onerror calls playNextInQueue; a load failure (the clip
\* was still loading) also rejects the pending play() promise
ClipError ==
  /\ audioRef.st \in {"loading", "playing"}
  /\ failedClips' = failedClips \cup {audioRef.src}
  /\ playNextInQueue(audioQueueRef, [audioRef EXCEPT !.st = "error"],
                     IF audioRef.st = "loading"
                       THEN playRejections \cup {audioRef.src} ELSE playRejections)
  /\ lastOp' = "error"
  /\ UNCHANGED <<tts, played, staleTTS, stops>>
  /\ UNCHANGED <<segVars, turnVars, pageVars, genVars, scopeVars>>

\* play() is refused without an error event: its promise is rejected
PlayRefused ==
  /\ audioRef.st = "loading"
  /\ audioRef' = [audioRef EXCEPT !.st = "blocked"]
  /\ playRejections' = playRejections \cup {audioRef.src}
  /\ failedClips' = failedClips \cup {audioRef.src}
  /\ lastOp' = "playRefused"
  /\ UNCHANGED <<tts, audioQueueRef, isPlayingQueueRef, isPlayingAudio,
                 playLog, played, staleTTS, stops>>
  /\ UNCHANGED <<segVars, turnVars, pageVars, genVars, scopeVars>>

\* the catch block around `await audioRef.current.play()`: playNextInQueue
PlayRejected ==
  /\ \E i \in playRejections :
       playNextInQueue(audioQueueRef, audioRef, playRejections \ {i})
  /\ lastOp' = "playRejected"
  /\ UNCHANGED <<tts, played, failedClips, staleTTS, stops>>
  /\ UNCHANGED <<segVars, turnVars, pageVars, genVars, scopeVars>>

\* stopAudio as a buggy variant that forgets to clear the queue
StopAudioKeepsQueue ==
  /\ stops < MaxStops
  /\ audioQueueRef' = audioQueueRef
  /\ isPlayingQueueRef' = FALSE
  /\ audioRef' = IF audioRef.st \in {"loading", "playing"}
                   THEN [audioRef EXCEPT !.st = "paused"] ELSE audioRef
  /\ playRejections' = IF audioRef.st = "loading"
                         THEN playRejections \cup {audioRef.src} ELSE playRejections
  /\ isPlayingAudio' = FALSE
  /\ staleTTS' = staleTTS \cup {i \in 1..MaxClips : tts[i] = "inflight"}
  /\ stops' = stops + 1
  /\ lastOp' = IF lastOp \in {"stopAudio", "stopAudioAgain"}
                THEN "stopAudioAgain" ELSE "stopAudio"
  /\ UNCHANGED <<tts, playLog, played, failedClips>>
  /\ UNCHANGED <<segVars, turnVars, pageVars, genVars, scopeVars>>

\* stopAudio()
StopAudio ==
  /\ stops < MaxStops
  /\ audioQueueRef' = <<>>
  /\ isPlayingQueueRef' = FALSE
  \* audioRef.current.pause(); currentTime = 0
  /\ audioRef' = IF audioRef.st \in {"loading", "playing"}
                   THEN [audioRef EXCEPT !.st = "paused"] ELSE audioRef
  /\ playRejections' = IF audioRef.st = "loading"
                         THEN playRejections \cup {audioRef.src} ELSE playRejections
  /\ isPlayingAudio' = FALSE
  /\ staleTTS' = staleTTS \cup {i \in 1..MaxClips : tts[i] = "inflight"}
  /\ stops' = stops + 1
  /\ lastOp' = IF lastOp \in {"stopAudio", "stopAudioAgain"}
                THEN "stopAudioAgain" ELSE "stopAudio"
  /\ UNCHANGED <<tts, playLog, played, failedClips>>
  /\ UNCHANGED <<segVars, turnVars, pageVars, genVars, scopeVars>>

SegParked ==
  /\ answer = <<>>
  /\ fullText = <<>>
  /\ sentenceBuffer = <<>>
  /\ ttsCalls = <<>>
  /\ shown = <<>>
  /\ newTexts = <<>>
  /\ streamEnded = FALSE

InitAudio == SegParked /\ AudioInit /\ TurnInit /\ PageInit /\ GenParked /\ ScopeParked

NextAudio ==
  \/ PlayTTS
  \/ TTSFailed
  \/ TTSDone
  \/ PlayResolved
  \/ ClipEnded
  \/ ClipError
  \/ PlayRefused
  \/ PlayRejected
  \/ StopAudio

SpecAudio == InitAudio /\ [][NextAudio]_vars

\* ------------------------------------------------ SpecTurn: one session
UserText == <<"h", "i">>      \* a message the user types
BlankText == <<" ">>          \* whitespace-only input

\* the i-th text delta the generator sends for an answer
Delta(i) == IF i % 2 = 1 THEN <<"a", ".">> ELSE <<" ", "b">>

RECURSIVE AnswerOf(_)
AnswerOf(n) == IF n = 0 THEN <<>> ELSE AnswerOf(n - 1) \o Delta(n)

UserMsg(t) == [role |-> "user", content |-> t]
AiMsg(t) == [role |-> "assistant", content |-> t]

\* outcomes of an upsert fetch: stored; an error response (the fetch resolves);
\* the fetch itself rejects
UpsertOutcomes == {"ok", "httpError", "rejected"}

\* POST /vectors/upsert of {session_id}::turn::{k} with outcome o; `values` is
\* the vector sent, `emitted` whether the terminal event of the request had
\* been enqueued when the upsert was issued
Upsert(k, role, text, values, emitted, o) ==
  /\ upsertLog' = Append(upsertLog, [id |-> k, role |-> role, values |-> values,
                                     emitted |-> emitted, turn |-> turnsSent])
  /\ store' = IF o = "ok"
                THEN [j \in DOMAIN store \cup {k} |->
                        IF j = k THEN [role |-> role, text |-> text] ELSE store[j]]
                ELSE store

\* whether the terminal (done) event is among the events w enqueued so far
TerminalEnqueued(w) == \E i \in DOMAIN w : w[i].done

\* the request is over: nothing of it is left at the server
ServerReset ==
  /\ sPc' = "idle"
  /\ req' = [kind |-> "none", turn_index |-> 0, history |-> <<>>]
  /\ queryOk' = [corpus |-> TRUE, session |-> TRUE]
  /\ llmRequested' = FALSE
  /\ fullAnswer' = <<>>
  /\ deltas' = 0
  /\ sResp' = "none"
  /\ wire' = <<>>
  /\ streamState' = "none"

\* the handler's catch block: status 500
Respond500 ==
  /\ sPc' = "done"
  /\ sResp' = "error"

\* buggy variant of the retrieval check: only the corpus query is checked
RetrievalFailedCorpusOnly(corpusOk, sessionOk) == ~corpusOk

\* `if (!corpusResponse.ok || !sessionResponse.ok) throw`; a rejected fetch
\* rejects Promise.all and reaches the same catch block
RetrievalFailed(corpusOk, sessionOk) == ~corpusOk \/ ~sessionOk

\* buggy variant of the rollback: only the placeholder is removed
RollBackOne(conv) == SubSeq(conv, 1, Len(conv) - 1)

\* setConversation((prev) => prev.slice(0, -2))
RollBack(conv) == SubSeq(conv, 1, Len(conv) - 2)

\* 0-based index of the placeholder: conversation.length + 1
aiMessageIndex == Len(convAtSend) + 1

\* Setup page, handleStartDebate up to the await of the debate-start fetch
C_StartDebate ==
  /\ cPc = "setup" /\ sPc = "idle" /\ notice = "none"
  /\ cPc' = "starting"
  /\ isLoading' = TRUE
  /\ req' = [kind |-> "start", turn_index |-> 0, history |-> <<>>]
  /\ sPc' = "embed"
  /\ UNCHANGED <<conversation, sourceGroups, turnIndex, userInput, convAtSend,
                 metadata, notice, outcome>>
  /\ embedLog' = <<>>
  /\ UNCHANGED <<queryOk, llmRequested, fullAnswer, deltas, sResp, wire, streamState>>
  /\ UNCHANGED <<store, upsertLog, turnsDone, genDone, frameSkipped, turnsSent>>
  /\ UNCHANGED <<segVars, audioVars, pageVars, genVars, scopeVars>>

\* both functions, step 1: the embedding of the user's text
S_Embed ==
  /\ sPc = "embed"
  /\ \E ok \in BOOLEAN :
       IF ok THEN sPc' = "retrieve" /\ sResp' = sResp ELSE Respond500
  /\ embedLog' = Append(embedLog, "user")
  /\ UNCHANGED <<req, queryOk, llmRequested, fullAnswer, deltas, wire, streamState>>
  /\ UNCHANGED <<store, upsertLog, turnsDone, genDone, frameSkipped, turnsSent>>
  /\ UNCHANGED <<clientVars, segVars, audioVars, pageVars, genVars, scopeVars>>

\* step 2: debate-continue queries the corpus scope and the session scope
\* (Promise.all); debate-start queries the corpus scope only
S_Retrieve ==
  /\ sPc = "retrieve"
  /\ \E c \in BOOLEAN, s \in BOOLEAN :
       /\ req.kind = "start" => s
       /\ queryOk' = [corpus |-> c, session |-> s]
       /\ IF RetrievalFailed(c, s)
            THEN Respond500
            ELSE sPc' = "generate" /\ sResp' = sResp
  /\ UNCHANGED <<req, llmRequested, fullAnswer, deltas, wire, streamState>>
  /\ UNCHANGED <<clientVars, storeVars, segVars, audioVars, pageVars, genVars, scopeVars>>

\* debate-start, step 5: the generation request and its whole answer
S_GenerateStart ==
  /\ sPc = "generate" /\ req.kind = "start"
  /\ llmRequested' = TRUE
  /\ \E n \in 0..MaxDeltas :
       IF n = 0
         THEN \* the request failed or the answer has no text
              Respond500 /\ UNCHANGED <<fullAnswer, genDone>>
         ELSE /\ fullAnswer' = AnswerOf(n)
              /\ genDone' = TRUE
              /\ sPc' = "upsertUser"
              /\ sResp' = sResp
  /\ UNCHANGED <<req, queryOk, deltas, wire, streamState>>
  /\ UNCHANGED <<store, upsertLog, embedLog, turnsDone, frameSkipped, turnsSent>>
  /\ UNCHANGED <<clientVars, segVars, audioVars, pageVars, genVars, scopeVars>>

\* debate-start, step 6: the awaited upsert of the user turn, index 0
S_StartUpsertUser ==
  /\ sPc = "upsertUser"
  /\ \E o \in UpsertOutcomes :
       /\ Upsert(req.turn_index, "user", UserText, "queryEmbedding", FALSE, o)
       /\ IF o = "rejected" THEN Respond500 ELSE sPc' = "aiEmbed" /\ sResp' = sResp
  /\ UNCHANGED <<req, queryOk, llmRequested, fullAnswer, deltas, wire, streamState>>
  /\ UNCHANGED <<embedLog, turnsDone, genDone, frameSkipped, turnsSent>>
  /\ UNCHANGED <<clientVars, segVars, audioVars, pageVars, genVars, scopeVars>>

\* debate-start, step 7: the embedding of the answer; a failed call throws
\* (rejected fetch, or no embedding.values in the body)
S_StartAiEmbed ==
  /\ sPc = "aiEmbed" /\ req.kind = "start"
  /\ \E ok \in BOOLEAN :
       IF ok THEN sPc' = "upsertAi" /\ sResp' = sResp ELSE Respond500
  /\ embedLog' = Append(embedLog, "answer")
  /\ UNCHANGED <<req, queryOk, llmRequested, fullAnswer, deltas, wire, streamState>>
  /\ UNCHANGED <<store, upsertLog, turnsDone, genDone, frameSkipped, turnsSent>>
  /\ UNCHANGED <<clientVars, segVars, audioVars, pageVars, genVars, scopeVars>>

\* debate-start, steps 7-8: the awaited upsert of the AI turn, index 1, and
\* the response {answer, retrieved, session_id, turn_index: 1}
S_StartUpsertAi ==
  /\ sPc = "upsertAi"
  /\ \E o \in UpsertOutcomes :
       /\ Upsert(req.turn_index + 1, "assistant", fullAnswer, "answerEmbedding", FALSE, o)
       /\ IF o = "rejected"
            THEN Respond500 /\ wire' = wire
            ELSE /\ sPc' = "done"
                 /\ sResp' = "ok"
                 /\ wire' = <<[done |-> TRUE, fullText |-> fullAnswer,
                               turn_index |-> req.turn_index + 1]>>
  /\ UNCHANGED <<req, queryOk, llmRequested, fullAnswer, deltas, streamState>>
  /\ UNCHANGED <<embedLog, turnsDone, genDone, frameSkipped, turnsSent>>
  /\ UNCHANGED <<clientVars, segVars, audioVars, pageVars, genVars, scopeVars>>

\* Setup page, handleStartDebate after the fetch: navigate to /debate with the
\* state the Debate page initialises from, or show the failure
C_StartResponse ==
  /\ cPc = "starting" /\ sPc = "done"
  /\ IF sResp = "ok"
       THEN LET data == Head(wire)
            IN /\ conversation' = <<UserMsg(UserText), AiMsg(data.fullText)>>
               /\ sourceGroups' = <<data.turn_index>>
               \* useState(location.state?.turn_index || 1)
               /\ turnIndex' = IF data.turn_index = 0 THEN 1 ELSE data.turn_index
               /\ cPc' = "idle"
               /\ notice' = notice
               /\ outcome' = "completed"
               /\ turnsDone' = Append(turnsDone, <<req.turn_index, data.turn_index>>)
       ELSE /\ notice' = "Failed to start debate"
            /\ cPc' = "setup"
            /\ outcome' = "failed"
            /\ UNCHANGED <<conversation, sourceGroups, turnIndex, turnsDone>>
  /\ isLoading' = FALSE
  /\ ServerReset
  /\ UNCHANGED <<userInput, convAtSend, metadata>>
  /\ UNCHANGED <<store, upsertLog, embedLog, genDone, frameSkipped, turnsSent>>
  /\ UNCHANGED <<segVars, audioVars, pageVars, genVars, scopeVars>>

\* the textarea's onChange
C_Type ==
  /\ cPc = "idle" /\ ~isLoading
  /\ \E t \in {<<>>, BlankText, UserText} \ {userInput} : userInput' = t
  /\ UNCHANGED <<cPc, conversation, sourceGroups, turnIndex, isLoading, convAtSend,
                 metadata, notice, outcome>>
  /\ UNCHANGED <<serverVars, storeVars, segVars, audioVars, pageVars, genVars, scopeVars>>

\* buggy variant of the guard: the input is not trimmed
SendRefusedUntrimmed(input, loading) == input = <<>> \/ loading

\* `if (!userInput.trim() || isLoading) return`
SendRefused(input, loading) == trim(input) = <<>> \/ loading

\* handleSendMessage called (Enter in the textarea, the Send button) while the
\* guard refuses: it returns at once
C_SendRefused ==
  /\ cPc \in {"idle", "waiting", "reading"}
  /\ SendRefused(userInput, isLoading)
  /\ UNCHANGED vars

\* handleSendMessage up to the await of the debate-continue fetch
C_Send ==
  /\ cPc \in {"idle", "waiting", "reading"} /\ turnsSent < MaxTurns
  /\ ~SendRefused(userInput, isLoading)
  /\ conversation' = conversation \o <<UserMsg(userInput), AiMsg(<<>>)>>
  /\ userInput' = <<>>
  /\ isLoading' = TRUE
  /\ convAtSend' = conversation
  /\ req' = [kind |-> "continue", turn_index |-> turnIndex, history |-> conversation]
  /\ sPc' = "embed"
  /\ cPc' = "waiting"
  /\ metadata' = 0
  /\ fullText' = <<>>
  /\ sentenceBuffer' = <<>>
  /\ ttsCalls' = <<>>
  /\ shown' = <<>>
  /\ newTexts' = <<>>
  /\ streamEnded' = FALSE
  /\ outcome' = "none"
  /\ notice' = "none"
  /\ genDone' = FALSE
  /\ frameSkipped' = FALSE
  /\ turnsSent' = turnsSent + 1
  /\ UNCHANGED <<sourceGroups, turnIndex, answer>>
  /\ UNCHANGED <<queryOk, llmRequested, fullAnswer, deltas, sResp, wire, streamState>>
  /\ embedLog' = <<>>
  /\ UNCHANGED <<store, upsertLog, turnsDone, audioVars, pageVars, genVars, scopeVars>>

\* debate-continue, step 5: the streaming generation request.  The response
\* is returned with the stream; a response without a body closes the stream
\* at once.
S_OpenStream ==
  /\ sPc = "generate" /\ req.kind = "continue"
  /\ llmRequested' = TRUE
  /\ \E r \in {"ok", "fail", "nobody"} :
       CASE r = "ok" -> sPc' = "stream" /\ sResp' = "ok" /\ streamState' = "open"
         [] r = "fail" -> Respond500 /\ streamState' = streamState
         [] r = "nobody" -> sPc' = "done" /\ sResp' = "ok" /\ streamState' = "closed"
  /\ UNCHANGED <<req, queryOk, fullAnswer, deltas, wire>>
  /\ UNCHANGED <<clientVars, storeVars, segVars, audioVars, pageVars, genVars, scopeVars>>

\* buggy variant of the read loop: the event's fullText is the delta alone
S_DeltaTextAsFullText ==
  /\ sPc = "stream" /\ deltas < MaxDeltas
  /\ deltas' = deltas + 1
  /\ fullAnswer' = fullAnswer \o Delta(deltas + 1)
  /\ wire' = Append(wire, [done |-> FALSE, fullText |-> Delta(deltas + 1),
                           turn_index |-> 0])
  /\ UNCHANGED <<sPc, req, queryOk, llmRequested, sResp, streamState>>
  /\ UNCHANGED <<clientVars, storeVars, segVars, audioVars, pageVars, genVars, scopeVars>>

\* debate-continue, read loop: an upstream event with text: fullAnswer grows
\* and {text, fullText} is enqueued for the client
S_Delta ==
  /\ sPc = "stream" /\ deltas < MaxDeltas
  /\ deltas' = deltas + 1
  /\ fullAnswer' = fullAnswer \o Delta(deltas + 1)
  /\ wire' = Append(wire, [done |-> FALSE, fullText |-> fullAnswer \o Delta(deltas + 1),
                           turn_index |-> 0])
  /\ UNCHANGED <<sPc, req, queryOk, llmRequested, sResp, streamState>>
  /\ UNCHANGED <<clientVars, storeVars, segVars, audioVars, pageVars, genVars, scopeVars>>

\* debate-continue, read loop: an upstream `data: ` line that JSON.parse
\* rejects, or an event without text: skipped, nothing is enqueued
S_UpstreamMalformed ==
  /\ sPc = "stream" /\ deltas < MaxDeltas
  /\ deltas' = deltas + 1
  /\ UNCHANGED <<sPc, req, queryOk, llmRequested, fullAnswer, sResp, wire, streamState>>
  /\ UNCHANGED <<clientVars, storeVars, segVars, audioVars, pageVars, genVars, scopeVars>>

\* debate-continue, read loop: reader.read() throws: controller.error
S_UpstreamError ==
  /\ sPc = "stream"
  /\ streamState' = "errored"
  /\ sPc' = "done"
  /\ UNCHANGED <<req, queryOk, llmRequested, fullAnswer, deltas, sResp, wire>>
  /\ UNCHANGED <<clientVars, storeVars, segVars, audioVars, pageVars, genVars, scopeVars>>

\* buggy variant of the end of the read loop: the user-turn upsert is issued
\* before the terminal event is enqueued
S_UpstreamEndUpsertFirst ==
  /\ sPc = "stream"
  /\ \E o \in UpsertOutcomes :
       Upsert(req.turn_index, "user", UserText, "queryEmbedding",
              TerminalEnqueued(wire), o)
  /\ wire' = Append(wire, [done |-> TRUE, fullText |-> fullAnswer,
                           turn_index |-> req.turn_index + 1])
  /\ genDone' = TRUE
  /\ sPc' = "aiEmbed"
  /\ UNCHANGED <<req, queryOk, llmRequested, fullAnswer, deltas, sResp, streamState>>
  /\ UNCHANGED <<embedLog, turnsDone, frameSkipped, turnsSent>>
  /\ UNCHANGED <<clientVars, segVars, audioVars, pageVars, genVars, scopeVars>>

\* debate-continue, after the loop: the terminal event is enqueued with
\* turn_index + 1, the user-turn upsert is issued without await, and the
\* handler awaits the embedding of the answer
S_UpstreamEnd ==
  /\ sPc = "stream"
  /\ LET enqueued == Append(wire, [done |-> TRUE, fullText |-> fullAnswer,
                                   turn_index |-> req.turn_index + 1])
     IN /\ wire' = enqueued
        /\ \E o \in UpsertOutcomes :
             Upsert(req.turn_index, "user", UserText, "queryEmbedding",
                    TerminalEnqueued(enqueued), o)
  /\ genDone' = TRUE
  /\ sPc' = "aiEmbed"
  /\ UNCHANGED <<req, queryOk, llmRequested, fullAnswer, deltas, sResp, streamState>>
  /\ UNCHANGED <<embedLog, turnsDone, frameSkipped, turnsSent>>
  /\ UNCHANGED <<clientVars, segVars, audioVars, pageVars, genVars, scopeVars>>

\* debate-continue, step 7: the awaited embedding of the answer.  A failed
\* call throws inside start(): controller.error.  Otherwise the AI-turn upsert
\* is issued without await and the stream is closed.
S_AiEmbed ==
  /\ sPc = "aiEmbed" /\ req.kind = "continue"
  /\ \E ok \in BOOLEAN :
       IF ok
         THEN /\ \E o \in UpsertOutcomes :
                   Upsert(req.turn_index + 1, "assistant", fullAnswer, "answerEmbedding",
                          genDone, o)
              /\ streamState' = "closed"
         ELSE /\ streamState' = "errored"
              /\ UNCHANGED <<store, upsertLog>>
  /\ embedLog' = Append(embedLog, "answer")
  /\ sPc' = "done"
  /\ UNCHANGED <<req, queryOk, llmRequested, fullAnswer, deltas, sResp, wire>>
  /\ UNCHANGED <<turnsDone, genDone, frameSkipped, turnsSent>>
  /\ UNCHANGED <<clientVars, segVars, audioVars, pageVars, genVars, scopeVars>>

\* buggy variant of the catch block: a turn that failed after its terminal
\* event was read still applies the event's turn_index
CatchAdvancesTurnIndex ==
  /\ notice' = "Failed to send message"
  /\ conversation' = RollBack(conversation)
  /\ isLoading' = FALSE
  /\ cPc' = "idle"
  /\ outcome' = "failed"
  /\ turnIndex' = IF metadata # 0 THEN metadata ELSE turnIndex
  /\ ServerReset
  /\ UNCHANGED <<sourceGroups, userInput, convAtSend, metadata>>
  /\ UNCHANGED <<storeVars, segVars, audioVars, pageVars, genVars, scopeVars>>

\* handleSendMessage, catch and finally: toast, roll back, isLoading false
Catch ==
  /\ notice' = "Failed to send message"
  /\ conversation' = RollBack(conversation)
  /\ isLoading' = FALSE
  /\ cPc' = "idle"
  /\ outcome' = "failed"
  /\ ServerReset
  /\ UNCHANGED <<sourceGroups, turnIndex, userInput, convAtSend, metadata>>
  /\ UNCHANGED <<storeVars, segVars, audioVars, pageVars, genVars, scopeVars>>

\* handleSendMessage after the fetch: `if (!response.ok) throw`
C_Response ==
  /\ cPc = "waiting" /\ sResp # "none"
  /\ IF sResp = "error"
       THEN Catch
       ELSE /\ cPc' = "reading"
            /\ UNCHANGED <<conversation, sourceGroups, turnIndex, isLoading, userInput,
                           convAtSend, metadata, notice, outcome>>
            /\ UNCHANGED <<serverVars, storeVars, segVars, audioVars, pageVars, genVars, scopeVars>>

\* handleSendMessage, read loop: one whole `data: ` line is read and parsed
C_ReadFrame ==
  /\ cPc = "reading" /\ wire # <<>>
  /\ LET parsed == Head(wire)
     IN IF parsed.done
          THEN /\ metadata' = parsed.turn_index
               /\ UNCHANGED <<conversation, segVars>>
          ELSE IF parsed.fullText # <<>>
            THEN LET r == SegmentUpdate(fullText, sentenceBuffer, ttsCalls, parsed.fullText)
                 IN /\ fullText' = r.fullText
                    /\ sentenceBuffer' = r.sentenceBuffer
                    /\ ttsCalls' = r.ttsCalls
                    /\ shown' = Shown(r.ttsCalls, TextShownAtTTS(fullText, parsed.fullText))
                    /\ newTexts' = Append(newTexts, r.newText)
                    /\ conversation' = [conversation EXCEPT ![aiMessageIndex + 1] =
                                          AiMsg(parsed.fullText)]
                    /\ UNCHANGED <<metadata, answer, streamEnded>>
            ELSE UNCHANGED <<metadata, conversation, segVars>>
  /\ wire' = Tail(wire)
  /\ UNCHANGED <<cPc, sourceGroups, turnIndex, isLoading, userInput, convAtSend,
                 notice, outcome>>
  /\ UNCHANGED <<sPc, req, queryOk, llmRequested, fullAnswer, deltas, sResp, streamState>>
  /\ UNCHANGED <<storeVars, audioVars, pageVars, genVars, scopeVars>>

\* buggy variant of the read loop: a line that cannot be parsed throws out of
\* the loop into the catch block
C_ReadSplitFrameFatal ==
  /\ cPc = "reading" /\ wire # <<>>
  /\ Catch

\* handleSendMessage, read loop: the `data: ` line arrives divided over two
\* reads: JSON.parse fails on the first part (skipped) and the second part
\* does not start with `data: `
C_ReadSplitFrame ==
  /\ cPc = "reading" /\ wire # <<>>
  /\ wire' = Tail(wire)
  /\ frameSkipped' = TRUE
  /\ UNCHANGED <<sPc, req, queryOk, llmRequested, fullAnswer, deltas, sResp, streamState>>
  /\ UNCHANGED <<store, upsertLog, embedLog, turnsDone, genDone, turnsSent>>
  /\ UNCHANGED <<clientVars, segVars, audioVars, pageVars, genVars, scopeVars>>

\* handleSendMessage after the loop: reader.read() reported done: final
\* flush, then the metadata (if any) is applied; finally isLoading false
C_ReadDone ==
  /\ cPc = "reading" /\ wire = <<>> /\ streamState = "closed"
  /\ ttsCalls' = FinalFlush(sentenceBuffer, ttsCalls)
  /\ shown' = Shown(FinalFlush(sentenceBuffer, ttsCalls), fullText)
  /\ streamEnded' = TRUE
  /\ IF metadata # 0
       THEN /\ sourceGroups' = Append(sourceGroups, metadata)
            /\ turnIndex' = metadata
            /\ turnsDone' = Append(turnsDone, <<req.turn_index, metadata>>)
            /\ outcome' = "completed"
       ELSE /\ outcome' = "dangling"
            /\ UNCHANGED <<sourceGroups, turnIndex, turnsDone>>
  /\ isLoading' = FALSE
  /\ cPc' = "idle"
  /\ ServerReset
  /\ UNCHANGED <<conversation, userInput, convAtSend, metadata, notice>>
  /\ UNCHANGED <<answer, fullText, sentenceBuffer, newTexts>>
  /\ UNCHANGED <<store, upsertLog, embedLog, genDone, frameSkipped, turnsSent>>
  /\ UNCHANGED <<audioVars, pageVars, genVars, scopeVars>>

\* handleSendMessage, read loop: reader.read() rejects (the stream errored)
C_ReadError ==
  /\ cPc = "reading" /\ streamState = "errored"
  /\ Catch

InitTurn == SegParked /\ AudioInit /\ TurnInit /\ PageInit /\ GenParked /\ ScopeParked

NextTurn ==
  \/ C_StartDebate
  \/ S_Embed
  \/ S_Retrieve
  \/ S_GenerateStart
  \/ S_StartUpsertUser
  \/ S_StartAiEmbed
  \/ S_StartUpsertAi
  \/ C_StartResponse
  \/ C_Type
  \/ C_SendRefused
  \/ C_Send
  \/ C_Response
  \/ S_OpenStream
  \/ S_Delta
  \/ S_UpstreamMalformed
  \/ S_UpstreamError
  \/ S_UpstreamEnd
  \/ S_AiEmbed
  \/ C_ReadFrame
  \/ C_ReadSplitFrame
  \/ C_ReadDone
  \/ C_ReadError

SpecTurn == InitTurn /\ [][NextTurn]_vars

\* ----------------------------- SpecPage: the whole Debate page in a session
\* handleEndDebate: the End Debate button is never disabled; it navigates to
\* /results with the conversation and source groups of the current render.
\* The page is unmounted: what handleSendMessage still does has no effect.
C_EndDebate ==
  /\ cPc \in {"idle", "waiting", "reading"}
  /\ results.during = "none"
  /\ results' = [during |-> cPc, transcript |-> conversation,
                 source_groups |-> sourceGroups]
  /\ cPc' = "results"
  /\ UNCHANGED <<conversation, sourceGroups, turnIndex, isLoading, userInput,
                 convAtSend, metadata, notice, outcome>>
  /\ UNCHANGED <<stt, serverVars, storeVars, segVars, audioVars, genVars, scopeVars>>

\* transcribeAudio up to the elevenlabs-stt fetch made in reader.onloadend.
\* The try/finally around the assignment of onloadend has run by then:
\* isTranscribing is false again.  The record button is disabled while
\* isLoading.
C_TranscribeAudio ==
  /\ cPc = "idle" /\ ~isLoading
  /\ stt # "inflight"
  /\ stt' = "inflight"
  /\ UNCHANGED <<results, turnVars, segVars, audioVars, genVars, scopeVars>>

\* reader.onloadend after the fetch, response ok: setUserInput(data.text) and
\* the toast "Transcription complete"
C_TranscribeOk ==
  /\ stt = "inflight"
  /\ cPc \in {"idle", "waiting", "reading"}
  /\ stt' = "idle"
  /\ userInput' = UserText
  /\ notice' = "Transcription complete"
  /\ UNCHANGED <<cPc, conversation, sourceGroups, turnIndex, isLoading, convAtSend,
                 metadata, outcome>>
  /\ UNCHANGED <<results, serverVars, storeVars, segVars, audioVars, genVars, scopeVars>>

\* reader.onloadend after the fetch, response not ok (elevenlabs-stt answers
\* 500): `throw new Error("Transcription failed")` inside the async callback.
\* The callback's promise rejects; the try/catch of transcribeAudio has been
\* left long before, so its toast is not shown.
C_TranscribeFailed ==
  /\ stt = "inflight"
  /\ cPc \in {"idle", "waiting", "reading"}
  /\ stt' = "failed"
  /\ UNCHANGED <<results, turnVars, segVars, audioVars, genVars, scopeVars>>

NextPage ==
  \/ NextTurn
  \/ C_EndDebate
  \/ C_TranscribeAudio
  \/ C_TranscribeOk
  \/ C_TranscribeFailed

SpecPage == InitTurn /\ [][NextPage]_vars

\* ------------- SpecGen: one request, from the retrieval to the last event
(***************************************************************************)
(* The request's inputs are drawn in the initial state: the corpus matches *)
(* the query returned, in retrieval order, and the conversation_history    *)
(* the client sent.  The generator is the environment: it answers with any *)
(* text, citing any source number or none.  For debate-continue it sends   *)
(* a stream of `data: ` lines, which the transport hands over in reads of  *)
(* any size.  The stream is a sequence of units (the `data: ` prefix, the  *)
(* opening and the closing of the JSON payload, its text, a line feed);    *)
(* a read ends between two units.                                          *)
(***************************************************************************)
MaxMatches == 2    \* corpus matches a query returns
MaxHistory == 7    \* messages of a conversation_history
MaxEvents == 2     \* events of one generator stream

\* conversation_history.slice(-6)
HistoryWindow == 6

\* `[Source k]` as it appears in a text
SourceTag == <<"[Source 1]", "[Source 2]", "[Source 3]", "[Source 4]", "[Source 5]">>

\* the two orders in which the store may rank the corpus entries
RankingA == [i \in 1..MaxMatches |-> 10 + i]
RankingB == [i \in 1..MaxMatches |-> 10 + MaxMatches + 1 - i]

\* corpusData.matches || []
MatchLists == {SubSeq(r, 1, n) : r \in {RankingA, RankingB}, n \in 0..MaxMatches}

\* a conversation of n messages, the user first
History(n) ==
  [i \in 1..n |-> [role |-> IF i % 2 = 1 THEN "user" ELSE "assistant", content |-> i]]

\* the texts the generator may answer with when it was shown n sources
AnswerTexts(n) ==
  {<<"a", ".">>} \cup {<<"a", SourceTag[k], ".">> : k \in 1..(n + 1)}

\* s.slice(-n)
sliceEnd(s, n) == SubSeq(s, Max({Len(s) - n, 0}) + 1, Len(s))

\* matches.map((match, idx) => `[Source ${idx + 1}]: ${summary}`)
corpusContext(matches) ==
  [i \in 1..Len(matches) |-> [label |-> (i - 1) + 1, id |-> matches[i]]]

\* buggy variant of the history window: the first six messages
conversationSummaryFirst(history) ==
  LET recent == SubSeq(history, 1, Min({HistoryWindow, Len(history)}))
  IN [j \in 1..Len(recent) |->
        [speaker |-> IF recent[j].role = "user" THEN "User" ELSE "AI",
         content |-> recent[j].content]]

\* conversation_history.slice(-6).map(msg => `${User|AI}: ${msg.content}`)
conversationSummary(history) ==
  LET recent == sliceEnd(history, HistoryWindow)
  IN [j \in 1..Len(recent) |->
        [speaker |-> IF recent[j].role = "user" THEN "User" ELSE "AI",
         content |-> recent[j].content]]

\* buggy variant of the citation list: zero-based source numbers
retrievedZeroBased(matches) ==
  [i \in 1..Len(matches) |-> [id |-> matches[i], source_number |-> i - 1]]

\* corpusMatches.map((match, idx) => ({id, score, source_number: idx + 1, ...}))
retrieved(matches) ==
  [i \in 1..Len(matches) |-> [id |-> matches[i], source_number |-> (i - 1) + 1]]

\* units of the generator's stream
Unit(s) == [t |-> s, text |-> <<>>]
TextUnit(x) == [t |-> "text", text |-> x]

\* the events the generator may send: a JSON payload with text, the sentinel
\* [DONE], a payload that is not valid JSON
EventKinds(n) ==
  {[kind |-> "text", text |-> x] : x \in AnswerTexts(n)}
    \cup {[kind |-> "sentinel", text |-> <<>>], [kind |-> "malformed", text |-> <<"a", ".">>]}

EventSeqs(n) == UNION {[1..len -> EventKinds(n)] : len \in 0..MaxEvents}

\* the line `data: <payload>` and the blank line of one event
Frame(e) ==
  CASE e.kind = "text" ->
         <<Unit("data: "), Unit("{"), TextUnit(e.text), Unit("}"), Unit("\n"), Unit("\n")>>
    [] e.kind = "sentinel" ->
         <<Unit("data: "), Unit("[DONE]"), Unit("\n"), Unit("\n")>>
    [] e.kind = "malformed" ->
         <<Unit("data: "), Unit("{"), TextUnit(e.text), Unit("\n"), Unit("\n")>>

RECURSIVE Frames(_)
Frames(es) == IF es = <<>> THEN <<>> ELSE Frame(Head(es)) \o Frames(Tail(es))

\* the texts of the well-formed events of es, in order
RECURSIVE WellFormedTexts(_)
WellFormedTexts(es) ==
  IF es = <<>> THEN <<>>
  ELSE (IF Head(es).kind = "text" THEN <<Head(es).text>> ELSE <<>>)
         \o WellFormedTexts(Tail(es))

\* chunk.split('\n')
RECURSIVE split(_)
split(chunk) ==
  LET feeds == {i \in 1..Len(chunk) : chunk[i] = Unit("\n")}
  IN IF feeds = {} THEN <<chunk>>
     ELSE <<SubSeq(chunk, 1, Min(feeds) - 1)>>
            \o split(SubSeq(chunk, Min(feeds) + 1, Len(chunk)))

\* JSON.parse(data) and parsed.candidates?.[0]?.content?.parts?.[0]?.text
JSONParse(data) ==
  IF Len(data) = 3 /\ data[1] = Unit("{") /\ data[2].t = "text" /\ data[3] = Unit("}")
    THEN [ok |-> TRUE, text |-> data[2].text]
    ELSE [ok |-> FALSE, text |-> <<>>]

\* the body of `for (const line of lines)`: st is [fullAnswer, enqueued]
ForwardLine(line, st) ==
  IF line # <<>> /\ Head(line) = Unit("data: ")
    THEN LET data == Tail(line)
             parsed == JSONParse(data)
         IN IF data = <<Unit("[DONE]")>> THEN st
            ELSE IF parsed.ok /\ parsed.text # <<>>
              THEN [fullAnswer |-> st.fullAnswer \o parsed.text,
                    enqueued |-> Append(st.enqueued,
                                   [done |-> FALSE, text |-> parsed.text,
                                    fullText |-> st.fullAnswer \o parsed.text,
                                    retrieved |-> <<>>])]
              ELSE st
    ELSE st

RECURSIVE ForwardLines(_, _)
ForwardLines(lines, st) ==
  IF lines = <<>> THEN st ELSE ForwardLines(Tail(lines), ForwardLine(Head(lines), st))

genServerRest == <<sPc, req, queryOk, llmRequested, deltas, sResp, streamState>>

InitGen ==
  /\ SegParked /\ AudioInit /\ TurnInit /\ PageInit /\ ScopeParked
  /\ gPc = "prompt"
  /\ gKind \in {"start", "continue"}
  /\ corpusMatches \in MatchLists
  /\ conversation_history \in {History(n) : n \in 0..MaxHistory}
  /\ gKind = "start" => conversation_history = <<>>
  /\ conversation_history # <<>> => corpusMatches = RankingA
  /\ systemPrompt = [advertised |-> 0, corpusContext |-> <<>>, conversationSummary |-> <<>>]
  /\ upstream = <<>>
  /\ sentTexts = <<>>

\* both functions, steps 3-4: the context and the prompt
G_BuildPrompt ==
  /\ gPc = "prompt"
  /\ systemPrompt' = [advertised |-> Len(corpusMatches),
                      corpusContext |-> corpusContext(corpusMatches),
                      conversationSummary |->
                        IF gKind = "continue"
                          THEN conversationSummary(conversation_history) ELSE <<>>]
  /\ gPc' = "generate"
  /\ UNCHANGED <<gKind, corpusMatches, conversation_history, upstream, sentTexts>>
  /\ UNCHANGED <<segVars, audioVars, turnVars, pageVars, scopeVars>>

\* debate-start, steps 5 and 8: the answer and the response
G_GenerateStart ==
  /\ gPc = "generate" /\ gKind = "start"
  /\ \E x \in AnswerTexts(Len(corpusMatches)) :
       /\ fullAnswer' = x
       /\ sentTexts' = <<x>>
       /\ wire' = <<[done |-> TRUE, text |-> <<>>, fullText |-> x,
                     retrieved |-> retrieved(corpusMatches)]>>
  /\ gPc' = "done"
  /\ UNCHANGED <<gKind, corpusMatches, conversation_history, systemPrompt, upstream>>
  /\ UNCHANGED <<genServerRest, clientVars, storeVars, segVars, audioVars, pageVars, scopeVars>>

\* debate-continue, step 5: the generator's stream
G_Generate ==
  /\ gPc = "generate" /\ gKind = "continue"
  /\ \E es \in EventSeqs(Len(corpusMatches)) :
       /\ upstream' = Frames(es)
       /\ sentTexts' = WellFormedTexts(es)
  /\ gPc' = "read"
  /\ UNCHANGED <<gKind, corpusMatches, conversation_history, systemPrompt>>
  /\ UNCHANGED <<segVars, audioVars, turnVars, pageVars, scopeVars>>

\* debate-continue, read loop: one reader.read() that returns the next k
\* units, and the for loop over its lines
G_Read ==
  /\ gPc = "read" /\ upstream # <<>>
  /\ \E k \in 1..Len(upstream) :
       LET st == ForwardLines(split(SubSeq(upstream, 1, k)),
                              [fullAnswer |-> fullAnswer, enqueued |-> <<>>])
       IN /\ fullAnswer' = st.fullAnswer
          /\ wire' = wire \o st.enqueued
          /\ upstream' = SubSeq(upstream, k + 1, Len(upstream))
  /\ UNCHANGED <<gPc, gKind, corpusMatches, conversation_history, systemPrompt, sentTexts>>
  /\ UNCHANGED <<genServerRest, clientVars, storeVars, segVars, audioVars, pageVars, scopeVars>>

\* debate-continue, after the loop: reader.read() reported done; the
\* terminal event with the citation list
G_End ==
  /\ gPc = "read" /\ upstream = <<>>
  /\ wire' = Append(wire, [done |-> TRUE, text |-> <<>>, fullText |-> fullAnswer,
                           retrieved |-> retrieved(corpusMatches)])
  /\ gPc' = "done"
  /\ UNCHANGED <<gKind, corpusMatches, conversation_history, systemPrompt, upstream,
                 sentTexts>>
  /\ UNCHANGED <<genServerRest, fullAnswer, clientVars, storeVars, segVars, audioVars,
                 pageVars, scopeVars>>

NextGen ==
  \/ G_BuildPrompt
  \/ G_GenerateStart
  \/ G_Generate
  \/ G_Read
  \/ G_End

SpecGen == InitGen /\ [][NextGen]_vars

\* ------------------- SpecScope: the namespaces the edge functions touch
(***************************************************************************)
(* The index holds the corpus in its default namespace, the empty string.  *)
(* Requests come from the Setup page (debate-start without session_id),    *)
(* from the Debate page (debate-continue with the sessionId state, which   *)
(* is "" when the page was opened without navigation state) and from any   *)
(* other caller of the two endpoints: neither function checks session_id.  *)
(***************************************************************************)
MaxRequests == 2   \* requests accepted in SpecScope

\* namespace: "" of the corpus queries
GlobalNamespace == ""

\* session_id values a caller may send without having been given them
CallerIds == {"", "s1"}

\* the n-th value of crypto.randomUUID()
Uuid(n) == "uuid" \o ToString(n)

Namespaces == CallerIds \cup {Uuid(n) : n \in 1..MaxRequests}

\* the vectors of the corpus
CorpusIds == {"doc1", "doc2"}

\* turn_index values of a debate-continue request
TurnIndexes == 1..2

\* `${session_id}::turn::${k}`
TurnId(sid, k) == sid \o "::turn::" \o ToString(k)

InitScope ==
  /\ SegParked /\ AudioInit /\ TurnInit /\ PageInit /\ GenParked
  /\ nsPc = "idle"
  /\ body = [fn |-> "none", session_id |-> "", turn_index |-> 0]
  /\ currentSessionId = ""
  /\ queries = {}
  /\ index = [ns \in Namespaces |-> IF ns = GlobalNamespace THEN CorpusIds ELSE {}]
  /\ uuids = 0
  /\ requests = 0

scopeRest == <<segVars, audioVars, turnVars, pageVars, genVars>>

\* req.json(): a request arrives; a session_id the caller holds is the empty
\* string, a made-up one or one that debate-start returned
N_Request ==
  /\ nsPc = "idle" /\ requests < MaxRequests
  /\ \E fn \in {"debate-start", "debate-continue"},
        sid \in CallerIds \cup {Uuid(n) : n \in 1..uuids},
        k \in TurnIndexes :
       body' = [fn |-> fn, session_id |-> sid,
                turn_index |-> IF fn = "debate-start" THEN 0 ELSE k]
  /\ requests' = requests + 1
  /\ queries' = {}
  /\ nsPc' = "accepted"
  /\ UNCHANGED <<currentSessionId, index, uuids, scopeRest>>

\* debate-start: const currentSessionId = session_id || crypto.randomUUID()
N_StartSession ==
  /\ nsPc = "accepted" /\ body.fn = "debate-start"
  /\ IF body.session_id # ""
       THEN currentSessionId' = body.session_id /\ uuids' = uuids
       ELSE currentSessionId' = Uuid(uuids + 1) /\ uuids' = uuids + 1
  /\ nsPc' = "query"
  /\ UNCHANGED <<body, queries, index, requests, scopeRest>>

\* debate-continue: session_id is used as it came
N_ContinueSession ==
  /\ nsPc = "accepted" /\ body.fn = "debate-continue"
  /\ currentSessionId' = body.session_id
  /\ nsPc' = "query"
  /\ UNCHANGED <<body, queries, index, uuids, requests, scopeRest>>

\* step 2: the corpus-scope query and, in debate-continue, the session-scope
\* query
N_Query ==
  /\ nsPc = "query"
  /\ queries' = {[scope |-> "corpus", namespace |-> GlobalNamespace]}
                  \cup (IF body.fn = "debate-continue"
                          THEN {[scope |-> "session", namespace |-> currentSessionId]}
                          ELSE {})
  /\ nsPc' = "upsert"
  /\ UNCHANGED <<body, currentSessionId, index, uuids, requests, scopeRest>>

\* steps 6-7: the upserts of the user turn and of the AI turn, both with
\* namespace: the session id
N_Upsert ==
  /\ nsPc = "upsert"
  /\ index' = [index EXCEPT ![currentSessionId] =
                 @ \cup {TurnId(currentSessionId, body.turn_index),
                         TurnId(currentSessionId, body.turn_index + 1)}]
  /\ nsPc' = "idle"
  /\ UNCHANGED <<body, currentSessionId, queries, uuids, requests, scopeRest>>

NextScope ==
  \/ N_Request
  \/ N_StartSession
  \/ N_ContinueSession
  \/ N_Query
  \/ N_Upsert

SpecScope == InitScope /\ [][NextScope]_vars

\* --------------------------------------------------------------- claims
RECURSIVE Flatten(_)
Flatten(ss) == IF ss = <<>> THEN <<>> ELSE Head(ss) \o Flatten(Tail(ss))

StripWS(s) == SelectSeq(s, LAMBDA c : c \notin WhiteSpace)

C2_PlayOrderIsEmissionOrder ==
  \A m, n \in 1..Len(playLog) : m < n => playLog[m] < playLog[n]

\* C7: a clip whose synthesis was in flight when stopAudio ran is discarded
\* when the synthesis completes: it is never queued and never played.
C7_StaleClipsDiscarded ==
  \A i \in staleTTS : i \notin Range(playLog) /\ i \notin Range(audioQueueRef)

\* C8: stopAudio leaves the queue empty, no driver marked active and the
\* current clip halted; a stopAudio that directly follows a stopAudio changes
\* none of the program's variables.
C8_StopAudioClearsAndIsIdempotent ==
  [][lastOp' \in {"stopAudio", "stopAudioAgain"} =>
       /\ audioQueueRef' = <<>>
       /\ ~isPlayingQueueRef'
       /\ ~isPlayingAudio'
       /\ audioRef'.st \notin {"loading", "playing"}
       /\ (lastOp' = "stopAudioAgain" =>
             UNCHANGED <<tts, audioQueueRef, isPlayingQueueRef, isPlayingAudio,
                         audioRef, playRejections>>)]_vars

\* C8 witness: stopAudio directly after a stopAudio that halted a clip while
\* a second clip had been queued behind it.
C8_Witness ==
  /\ lastOp = "stopAudioAgain"
  /\ audioRef.st = "paused"
  /\ audioQueueRef = <<>>
  /\ Len(playLog) = 1
  /\ Cardinality({i \in 1..MaxClips : tts[i] = "done"}) = 2

\* C9: absent a stop, a failure of one sentence skips only that sentence:
\* every other clip on which play() was called is the current clip, played to
\* its end, or failed itself; none is cut off by the failure of another.
C9_FailureSkipsOnlyThatSentence ==
  stops = 0 =>
    \A i \in Range(playLog) :
      i = audioRef.src \/ i \in played \/ i \in failedClips

\* the playNextInQueue chains under way: the clip whose handlers will call it,
\* and every rejected play() promise whose catch block will call it
ActiveDrivers ==
  (IF audioRef.st \in {"loading", "playing"} THEN 1 ELSE 0) + Cardinality(playRejections)

\* C10: at most one playback driver is active at a time, for every
\* interleaving of queueAudio, ended, error, play() rejection and stopAudio.
C10_SingleDriver == ActiveDrivers <= 1

\* C3: the opening exchange has turn indices 0 (user) and 1 (AI reply), and
\* the k-th completed exchange of the session has indices 2(k-1) and 2(k-1)+1:
\* each exchange advances the indices by exactly 2.
C3_TurnIndicesAdvanceByTwo ==
  \A k \in 1..Len(turnsDone) : turnsDone[k] = <<2 * (k - 1), 2 * (k - 1) + 1>>

\* C4: after a turn that failed in handleSendMessage the conversation is the
\* list before the submission: the user message and the placeholder (with
\* whatever partial text it showed) are both gone.
C4_FailedTurnRolledBack ==
  (cPc = "idle" /\ outcome = "failed") => conversation = convAtSend

\* C4 witness: a turn failed by a stream error after answer text was shown.
C4_Witness ==
  /\ cPc = "idle"
  /\ outcome = "failed"
  /\ fullText # <<>>
  /\ Len(conversation) = 2

\* C5: in debate-continue, once either scope query has failed the turn is
\* aborted: the response is the error response, no generation request is
\* issued and nothing is streamed.
C5_RetrievalFailureAborts ==
  (/\ req.kind = "continue"
   /\ sPc \notin {"idle", "embed", "retrieve"}
   /\ (~queryOk.corpus \/ ~queryOk.session))
  => /\ sPc = "done"
     /\ sResp = "error"
     /\ ~llmRequested
     /\ streamState = "none"
     /\ wire = <<>>
     /\ fullAnswer = <<>>

\* C5 witness: only the session-scope query failed and the turn was aborted.
C5_Witness ==
  /\ req.kind = "continue"
  /\ sPc = "done"
  /\ queryOk.corpus
  /\ ~queryOk.session
  /\ sResp = "error"

\* C6: a persistence failure never alters what the user sees: a turn whose
\* answer was final and whose events the client all parsed ends completed
\* (answer shown, source group appended, turn index advanced), whether or not
\* a persistence call failed.
C6_PersistenceFailureInvisible ==
  (outcome # "none" /\ genDone /\ ~frameSkipped) => outcome = "completed"

TurnUpserts == SelectSeq(upsertLog, LAMBDA u : u.turn = turnsSent /\ turnsSent >= 1)

\* C12: a debate-continue turn with request turn_index n that completed (the
\* stream closed after the terminal event, or the client saw the turn
\* complete) issued exactly two upserts: one of the user message under
\* {session_id}::turn::n carrying the query embedding, one of the answer under
\* {session_id}::turn::n+1 carrying the embedding of the answer, both after the
\* terminal event was enqueued; the request embedded the user text once and
\* the answer once.
C12_PersistedOncePerRole ==
  LET serverDone == /\ req.kind = "continue" /\ sPc = "done"
                    /\ streamState = "closed" /\ genDone
      clientDone == /\ cPc = "idle" /\ turnsSent >= 1 /\ outcome = "completed"
      n == IF serverDone THEN req.turn_index ELSE turnsDone[Len(turnsDone)][1]
      ofRole(r) == {i \in DOMAIN TurnUpserts : TurnUpserts[i].role = r}
  IN (serverDone \/ clientDone) =>
       /\ Len(TurnUpserts) = 2
       /\ Cardinality(ofRole("user")) = 1
       /\ Cardinality(ofRole("assistant")) = 1
       /\ \A i \in ofRole("user") :
            /\ TurnUpserts[i].id = n
            /\ TurnUpserts[i].values = "queryEmbedding"
            /\ TurnUpserts[i].emitted
       /\ \A i \in ofRole("assistant") :
            /\ TurnUpserts[i].id = n + 1
            /\ TurnUpserts[i].values = "answerEmbedding"
            /\ TurnUpserts[i].emitted
       /\ embedLog = <<"user", "answer">>

\* C12 witness: the client saw a debate-continue turn complete, and both
\* upserts of the turn were stored.
C12_Witness ==
  /\ cPc = "idle" /\ turnsSent >= 1 /\ outcome = "completed"
  /\ Len(TurnUpserts) = 2
  /\ turnIndex \in DOMAIN store
  /\ store[turnIndex].role = "assistant"

\* s occurs in t as a run of consecutive characters
Contains(t, s) ==
  \E from \in 0..(Len(t) - Len(s)) : SubSeq(t, from + 1, from + Len(s)) = s

\* C17: every sentence handed to playTTS is contained in the text that had
\* been submitted for display when it was handed over: the display update of
\* an incremental event is issued before a sentence of that event goes to
\* synthesis.
C17_DisplayedBeforeSpoken ==
  /\ Len(shown) = Len(ttsCalls)
  /\ \A i \in 1..Len(ttsCalls) : Contains(shown[i], ttsCalls[i])

\* C17 witness: a sentence was handed to playTTS while the answer was still
\* arriving, from an update that brought the end of the sentence.
C17_Witness ==
  /\ ~streamEnded
  /\ Len(ttsCalls) = 1
  /\ fullText # answer
  /\ shown[1] = fullText
  /\ Len(sentenceBuffer) > 0

\* C16: a frame that cannot be parsed is skipped and is not fatal.  At the
\* server every upstream event, with text or malformed, leaves the read loop
\* running and the stream open.  At the client every frame taken from the
\* stream, parsed or not, leaves the read loop running, the conversation in
\* place and no failure notice; the loop is left only at the end of the
\* stream or on a stream error; and a turn whose terminal event was parsed
\* and whose stream was closed ends completed with that event applied.
C16_MalformedFrameSkipped ==
  [][/\ (sPc = "stream" /\ deltas' # deltas) =>
          /\ sPc' = "stream"
          /\ streamState' = streamState
          /\ sResp' = sResp
     /\ (cPc = "reading" /\ wire # <<>> /\ wire' = Tail(wire) /\ req' = req) =>
          /\ cPc' = "reading"
          /\ notice' = notice
          /\ Len(conversation') = Len(conversation)
     /\ (cPc = "reading" /\ cPc' # "reading") =>
          \/ streamState = "errored"
          \/ wire = <<>> /\ streamState = "closed"
     /\ (cPc = "reading" /\ cPc' # "reading" /\ streamState = "closed"
           /\ metadata # 0) =>
          /\ outcome' = "completed"
          /\ turnIndex' = metadata
          /\ Len(conversation') = Len(convAtSend) + 2]_vars

\* C16 witness: the server skipped a malformed upstream event and forwarded
\* the next one, the client skipped the frame of that one and parsed the
\* terminal event, and the turn completed.
C16_Witness ==
  /\ cPc = "idle" /\ turnsSent >= 1
  /\ outcome = "completed"
  /\ frameSkipped
  /\ \E k \in DOMAIN store :
       /\ store[k].role = "assistant"
       /\ store[k].text = Delta(2)

\* C18: the debate is ended (the results page is entered, with the
\* transcript handed to it) only while no turn is in flight: never while the
\* request of the current turn is awaited or its stream is being read.
C18_EndWaitsForStream ==
  results.during # "none" => results.during = "idle"

\* C19: when the speech-to-text call of transcribeAudio fails, a failure
\* notice is shown and userInput keeps its text.
C19_TranscriptionFailureNoticed ==
  [][(stt = "inflight" /\ stt' = "failed") =>
       /\ notice' = "Transcription failed"
       /\ userInput' = userInput]_vars

\* the source numbers cited in a text
CitedNumbers(text) == {k \in DOMAIN SourceTag : SourceTag[k] \in Range(text)}

\* C13: the corpus matches are numbered 1..N in retrieval order, without gap
\* or repeat: the prompt advertises N sources and labels the i-th match
\* [Source i], and the citation list of the terminal event (debate-continue)
\* or of the response (debate-start) holds all N matches, the i-th with
\* source_number i, whatever the generated text cites.
C13_OrdinalsAgree ==
  LET N == Len(corpusMatches)
      context == systemPrompt.corpusContext
      list == wire[Len(wire)].retrieved
  IN /\ gPc \in {"generate", "read"} \/ (gPc = "done" /\ gKind # "none") =>
          /\ systemPrompt.advertised = N
          /\ Len(context) = N
          /\ \A i \in 1..N : context[i].label = i /\ context[i].id = corpusMatches[i]
     /\ (gPc = "done" /\ gKind # "none") =>
          /\ wire[Len(wire)].done
          /\ Len(list) = N
          /\ \A i \in 1..N :
               /\ list[i].source_number = i
               /\ list[i].id = corpusMatches[i]
               /\ list[i].source_number = context[i].label

\* C13 witness: a debate-continue answer that cites only the first of two
\* sources went out with a citation list of both.
C13_Witness ==
  /\ gPc = "done" /\ gKind = "continue"
  /\ corpusMatches = RankingB
  /\ CitedNumbers(fullAnswer) = {1}
  /\ Len(wire[Len(wire)].retrieved) = 2

\* C14: every [Source k] in a text sent to the user has 1 <= k <= N, N the
\* number of corpus matches of the turn.
C14_CitationsInRange ==
  \A i \in DOMAIN wire :
    gKind # "none" => CitedNumbers(wire[i].fullText) \subseteq 1..Len(corpusMatches)

\* C15: when the generator's stream has ended, fullAnswer is the
\* concatenation, in order, of the texts of its well-formed events, however
\* the stream was divided into reads.
C15_FullAnswerIsConcatenation ==
  (gKind = "continue" /\ gPc = "done") => fullAnswer = Flatten(sentTexts)

C21_BufferHasNoCompleteSentence == SentenceMatch(sentenceBuffer) = 0

\* the text t is one complete sentence: it ends in terminal punctuation and no
\* sentence ends before that (no terminal character followed by whitespace)
OneSentence(t) ==
  /\ Len(t) > 0
  /\ t[Len(t)] \in Terminal
  /\ \A i \in 1..(Len(t) - 1) : ~(t[i] \in Terminal /\ t[i + 1] \in WhiteSpace)

\* C22: when every incremental update appended exactly one complete sentence,
\* playTTS was called exactly once per update, the i-th call with the sentence
\* of the i-th update, and the final flush made no further call.
C22_OneCallPerSentence ==
  (\A i \in DOMAIN newTexts : OneSentence(newTexts[i])) =>
    /\ Len(ttsCalls) = Len(newTexts)
    /\ \A i \in DOMAIN newTexts : ttsCalls[i] = trim(newTexts[i])

\* C23: within a session no identifier {session_id}::turn::{k} is used for two
\* different turns: two upserts under the same k are upserts of the same
\* message (same request, same role), so no stored vector is overwritten by
\* another turn's.
C23_TurnIdsNeverReused ==
  \A i, j \in DOMAIN upsertLog :
    upsertLog[i].id = upsertLog[j].id
    => /\ upsertLog[i].turn = upsertLog[j].turn
       /\ upsertLog[i].role = upsertLog[j].role

\* C24: a turn started by handleSendMessage that has ended is either
\* completed (the user message and the answer in the conversation, the
\* terminal event applied: its source group appended and turnIndex set to its
\* turn_index) or rolled back (the conversation as before the submission).
C24_CompletedOrRolledBack ==
  (cPc = "idle" /\ turnsSent >= 1) =>
    \/ /\ Len(conversation) = Len(convAtSend) + 2
       /\ metadata # 0
       /\ turnIndex = metadata
       /\ sourceGroups # <<>>
       /\ sourceGroups[Len(sourceGroups)] = metadata
    \/ conversation = convAtSend

\* C25: a turn reported to the client as failed (error response of
\* debate-start or debate-continue, or an errored response stream) has stored
\* no vector in the session namespace.
C25_FailedTurnNotPersisted ==
  outcome = "failed" =>
    \A i \in DOMAIN upsertLog :
      upsertLog[i].turn = turnsSent =>
        ~(/\ upsertLog[i].id \in DOMAIN store
          /\ store[upsertLog[i].id].role = upsertLog[i].role)

\* C26: turn vectors are written only into the namespace of their own
\* session: the global namespace (the empty string) holds the corpus and
\* nothing else, and every vector of another namespace is a turn of the
\* session that namespace is named after.
C26_TurnsOnlyInOwnNamespace ==
  nsPc # "parked" =>
    /\ index[GlobalNamespace] = CorpusIds
    /\ \A ns \in Namespaces \ {GlobalNamespace} :
         \A id \in index[ns] : \E k \in 0..(Max(TurnIndexes) + 1) : id = TurnId(ns, k)

C28_PlayingImpliesFlags ==
  audioRef.st = "playing" => isPlayingQueueRef /\ isPlayingAudio

\* C29: when a debate-continue turn completes at the client, the assistant
\* message in the conversation is the fullText of the turn's terminal event
\* (the server's fullAnswer), however the response was divided into reads.
C29_ShownIsTerminalFullText ==
  [][(cPc = "reading" /\ cPc' = "idle" /\ outcome' = "completed") =>
       /\ conversation'[Len(conversation')].role = "assistant"
       /\ conversation'[Len(conversation')].content = fullAnswer]_vars

\* a is a prefix of b
IsPrefix(a, b) == Len(a) <= Len(b) /\ SubSeq(b, 1, Len(a)) = a

\* C30: in debate-continue the fullText of every incremental event extends
\* the fullText of the events before it (the events in the response are
\* ordered by prefix, and each new one is the previous fullAnswer with text
\* appended); the terminal event carries the fullAnswer reached by the last
\* incremental event; and the text stored as the AI turn is that fullAnswer.
C30_FullTextGrowsAndIsPersisted ==
  [][req.kind = "continue" =>
       /\ \A i, j \in DOMAIN wire :
            i < j => IsPrefix(wire[i].fullText, wire[j].fullText)
       /\ \A i \in DOMAIN wire : IsPrefix(wire[i].fullText, fullAnswer)
       /\ (sPc = "stream" /\ deltas' # deltas /\ Len(wire') > Len(wire)) =>
            /\ IsPrefix(fullAnswer, fullAnswer')
            /\ Len(fullAnswer') > Len(fullAnswer)
            /\ ~wire'[Len(wire')].done
            /\ wire'[Len(wire')].fullText = fullAnswer'
       /\ (~genDone /\ genDone') =>
            /\ wire'[Len(wire')].done
            /\ wire'[Len(wire')].fullText = fullAnswer
            /\ fullAnswer' = fullAnswer
       /\ (sPc = "aiEmbed" /\ store' # store) =>
            /\ genDone
            /\ store'[req.turn_index + 1] = [role |-> "assistant", text |-> fullAnswer]]_vars

\* C30 witness: a debate-continue answer of two incremental events, its
\* terminal event and its stored AI turn, none of the events read yet.
C30_Witness ==
  /\ req.kind = "continue" /\ sPc = "done" /\ streamState = "closed"
  /\ Len(wire) = 3
  /\ wire[1].fullText = AnswerOf(1)
  /\ wire[2].fullText = AnswerOf(2)
  /\ wire[3].done /\ wire[3].fullText = AnswerOf(2)
  /\ (req.turn_index + 1) \in DOMAIN store
  /\ store[req.turn_index + 1].text = AnswerOf(2)

====
